---- MODULE Spec2Model ----
(***************************************************************************)
(* Model of LoggingCheck                                                   *)
(* (roles/openshift_health_checker/openshift_checks/logging/logging.py).   *)
(*                                                                         *)
(* Every public function of the class is one action.  A behaviour is one   *)
(* call: Init fixes the arguments and what the collaborators (task_vars,   *)
(* the base check, execute_module) will answer, the action runs the whole  *)
(* function and records what it returned or raised.                        *)
(*                                                                         *)
(* Python values are tagged records, one field name per type, so that two  *)
(* values of different types compare unequal as they do in Python:         *)
(*   None  [t |-> "None"]           bool [t |-> "bool", b |-> ...]         *)
(*   int   [t |-> "num",  n |-> .]  str  [t |-> "str",  s |-> ...]         *)
(*   list  [t |-> "list", l |-> .]  dict [t |-> "dict", m |-> ...]         *)
(* Texts that the code formats, prints or parses (command strings, error   *)
(* messages, the output of `oc`) are sequences of tokens.                  *)
(***************************************************************************)
EXTENDS Integers, Sequences, FiniteSets, TLC

VARIABLES op, pc, task_vars, base_is_active, pods, module_result,
          logging_component, cmd_str, extra_args, ret, exc, module_calls

vars == <<op, pc, task_vars, base_is_active, pods, module_result,
          logging_component, cmd_str, extra_args, ret, exc, module_calls>>

----------------------------------------------------------------------------
(* Bounds of the explored inputs *)

MaxMasters == 2
MaxContainers == 2
MaxConditions == 2
MaxPods == 3
MaxTokens == 3

SeqsUpTo(S, n) == UNION {[1..k -> S] : k \in 0..n}

----------------------------------------------------------------------------
(* Python values *)

None == [t |-> "None"]
Bool(b) == [t |-> "bool", b |-> b]
Num(n) == [t |-> "num", n |-> n]
Str(s) == [t |-> "str", s |-> s]
List(l) == [t |-> "list", l |-> l]
Dict(m) == [t |-> "dict", m |-> m]

\* bool(v)
Truthy(v) ==
    CASE v.t = "None" -> FALSE
      [] v.t = "bool" -> v.b
      [] v.t = "num"  -> v.n # 0
      [] v.t = "str"  -> v.s # ""
      [] v.t = "list" -> v.l # <<>>
      [] v.t = "dict" -> DOMAIN v.m # {}

\* a or b
Or(a, b) == IF Truthy(a) THEN a ELSE b

\* a and b
And(a, b) == IF Truthy(a) THEN b ELSE a

\* A key of a mapping: absent, or present with a value
Undefined == [def |-> FALSE]
Def(v) == [def |-> TRUE, v |-> v]

\* What a call did: the value it returned or the exception it raised, and the
\* argument bundles it handed to execute_module, in order.
NoReturn == [t |-> "noreturn"]
NoExc == [type |-> "none", msg |-> <<>>]
Exception(type, msg) == [type |-> type, msg |-> msg]
Returns(v, calls) == [ret |-> v, exc |-> NoExc, calls |-> calls]
Raises(e, calls) == [ret |-> NoReturn, exc |-> e, calls |-> calls]

----------------------------------------------------------------------------
(* openshift_checks.get_var *)

\* get_var(task_vars, *keys, default=...): the value at the key path; when the
\* path does not resolve, the default if one was given, else
\* OpenShiftCheckException.  dflt is Undefined when no default is passed.
get_var(tv, key, dflt) ==
    IF tv[key].def THEN Returns(tv[key].v, <<>>)
    ELSE IF dflt.def THEN Returns(dflt.v, <<>>)
    ELSE Raises(Exception("OpenShiftCheckException", <<"'", key, "' is undefined">>), <<>>)

----------------------------------------------------------------------------
(* LoggingCheck.is_first_master, LoggingCheck.is_active *)

\* hostname falls back to None instead of [None]
is_first_master_NoneHost(tv) ==
    LET h == get_var(tv, "ansible_ssh_host", Undefined)
        m == get_var(tv, "groups.masters", Def(None))
    IN  IF h.exc # NoExc THEN h
        ELSE LET hostname == Or(h.ret, None)
                 masters  == Or(m.ret, List(<<None>>))
             IN  Returns(And(masters, Bool(masters.l[1] = hostname)), <<>>)

\* membership in the masters group instead of being its first element
is_first_master_AnyMaster(tv) ==
    LET h == get_var(tv, "ansible_ssh_host", Undefined)
        m == get_var(tv, "groups.masters", Def(None))
    IN  IF h.exc # NoExc THEN h
        ELSE LET hostname == Or(h.ret, List(<<None>>))
                 masters  == Or(m.ret, List(<<None>>))
             IN  Returns(And(masters,
                             Bool(\E i \in DOMAIN masters.l : masters.l[i] = hostname)),
                         <<>>)

is_first_master(tv) ==
    LET h == get_var(tv, "ansible_ssh_host", Undefined)
        m == get_var(tv, "groups.masters", Def(None))
    IN  IF h.exc # NoExc THEN h
        ELSE LET hostname == Or(h.ret, List(<<None>>))
                 masters  == Or(m.ret, List(<<None>>))
             IN  Returns(And(masters, Bool(masters.l[1] = hostname)), <<>>)

\* super().is_active(task_vars) and cls.is_first_master(task_vars) and logging_deployed
is_active(base, tv) ==
    LET d == get_var(tv, "openshift_hosted_logging_deploy", Def(Bool(FALSE)))
    IN  IF ~Truthy(base) THEN Returns(base, <<>>)
        ELSE LET f == is_first_master(tv)
             IN  IF f.exc # NoExc THEN f
                 ELSE Returns(And(f.ret, d.ret), <<>>)

----------------------------------------------------------------------------
(* LoggingCheck.not_running_pods *)

\* A pod is [status |-> Undefined or Def([containerStatuses |-> Undefined or
\* Def(<<[ready |-> bool], ...>>), conditions |-> Undefined or
\* Def(<<[type |-> ..., status |-> ...], ...>>)])].

\* pod.get("status", {}).get("containerStatuses"); an absent key reads as <<>>,
\* which is as falsy as None
container_statuses(pod) ==
    IF pod.status.def /\ pod.status.v.containerStatuses.def
    THEN pod.status.v.containerStatuses.v
    ELSE <<>>

\* pod['status'].get('conditions', [])
conditions(pod) ==
    IF pod.status.v.conditions.def THEN pod.status.v.conditions.v ELSE <<>>

\* a condition of type Ready counts whatever its status
pod_not_running_TypeOnly(pod) ==
    \/ container_statuses(pod) = <<>>
    \/ \E i \in DOMAIN container_statuses(pod) : container_statuses(pod)[i].ready = FALSE
    \/ ~ \E i \in DOMAIN conditions(pod) : conditions(pod)[i].type = "Ready"

\* every condition, instead of any, has to be Ready/True
pod_not_running_AllConditions(pod) ==
    \/ container_statuses(pod) = <<>>
    \/ \E i \in DOMAIN container_statuses(pod) : container_statuses(pod)[i].ready = FALSE
    \/ ~ \A i \in DOMAIN conditions(pod) :
            conditions(pod)[i].type = "Ready" /\ conditions(pod)[i].status = "True"

\* the filter of the list comprehension
pod_not_running(pod) ==
    \/ container_statuses(pod) = <<>>
    \/ \E i \in DOMAIN container_statuses(pod) : container_statuses(pod)[i].ready = FALSE
    \/ ~ \E i \in DOMAIN conditions(pod) :
            conditions(pod)[i].type = "Ready" /\ conditions(pod)[i].status = "True"

not_running_pods(ps) == Returns(List(SelectSeq(ps, pod_not_running)), <<>>)

----------------------------------------------------------------------------
(* json.loads *)

\* The output of `oc` is a sequence of JSON tokens: the punctuation
\* { } [ ] : , and the literals below; any other token is not JSON.
StringTokens == {"\"items\"", "\"status\"", "\"kind\"", "\"\""}
NumberTokens == {"0", "1"}

string_of(tok) ==
    CASE tok = "\"items\"" -> "items"
      [] tok = "\"status\"" -> "status"
      [] tok = "\"kind\"" -> "kind"
      [] tok = "\"\"" -> ""

number_of(tok) == IF tok = "0" THEN 0 ELSE 1

\* The result of parsing from position i: the value and the position after it
Parsed(v, i) == [ok |-> TRUE, v |-> v, i |-> i]
NotParsed == [ok |-> FALSE, v |-> None, i |-> 0]

TokenAt(toks, i) == IF i \in DOMAIN toks THEN toks[i] ELSE "<end>"

RECURSIVE parse_value(_, _), parse_elements(_, _, _), parse_members(_, _, _)

\* one JSON value starting at toks[i]
parse_value(toks, i) ==
    LET tok == TokenAt(toks, i)
    IN  CASE tok = "null" -> Parsed(None, i + 1)
          [] tok = "true" -> Parsed(Bool(TRUE), i + 1)
          [] tok = "false" -> Parsed(Bool(FALSE), i + 1)
          [] tok \in NumberTokens -> Parsed(Num(number_of(tok)), i + 1)
          [] tok \in StringTokens -> Parsed(Str(string_of(tok)), i + 1)
          [] tok = "[" ->
                IF TokenAt(toks, i + 1) = "]" THEN Parsed(List(<<>>), i + 2)
                ELSE parse_elements(toks, i + 1, <<>>)
          [] tok = "{" ->
                IF TokenAt(toks, i + 1) = "}" THEN Parsed(Dict(<<>>), i + 2)
                ELSE parse_members(toks, i + 1, <<>>)
          [] OTHER -> NotParsed

\* value (, value)* ] with the values before position i in acc
parse_elements(toks, i, acc) ==
    LET e == parse_value(toks, i)
    IN  IF ~e.ok THEN NotParsed
        ELSE IF TokenAt(toks, e.i) = "," THEN parse_elements(toks, e.i + 1, Append(acc, e.v))
        ELSE IF TokenAt(toks, e.i) = "]" THEN Parsed(List(Append(acc, e.v)), e.i + 1)
        ELSE NotParsed

\* string : value (, string : value)* } with the members before position i in
\* acc; a repeated key keeps its last value
parse_members(toks, i, acc) ==
    IF TokenAt(toks, i) \notin StringTokens \/ TokenAt(toks, i + 1) # ":" THEN NotParsed
    ELSE LET e == parse_value(toks, i + 2)
             key == string_of(toks[i])
             m == [k \in DOMAIN acc \cup {key} |-> IF k = key THEN e.v ELSE acc[k]]
         IN  IF ~e.ok THEN NotParsed
             ELSE IF TokenAt(toks, e.i) = "," THEN parse_members(toks, e.i + 1, m)
             ELSE IF TokenAt(toks, e.i) = "}" THEN Parsed(Dict(m), e.i + 1)
             ELSE NotParsed

\* json.loads(text): the value of a text that is exactly one JSON value, else
\* ValueError
json_loads(text) ==
    LET r == parse_value(text, 1)
    IN  IF r.ok /\ r.i = Len(text) + 1 THEN Returns(r.v, <<>>)
        ELSE Raises(Exception("ValueError", <<>>), <<>>)

----------------------------------------------------------------------------
(* LoggingCheck.exec_oc, LoggingCheck.get_pods_for_component *)

Text(x) == [t |-> "text", x |-> x]
Tuple(a, b) == [t |-> "tuple", p |-> <<a, b>>]

logging_namespace == "logging"

\* os.path.join of relative components
path_join(base, parts) == base \o parts

ENOENT == <<"[Errno 2] No such file or directory">>

UnexpectedErrorText ==
    "Unexpected error using 'oc' to validate the logging stack components. Error executing 'oc "

MissingOcMsg ==
    <<"This host is supposed to be a master but does not have the 'oc' command where expected. Has an installation been run on this host yet?">>

\* '...Error executing `oc {cmd}`:\n{error}'.format(cmd=..., error=...)
unexpected_error_msg(cmd, error) == <<UnexpectedErrorText>> \o cmd \o <<"': ">> \o error

\* 'No pods were found for the "{}" logging component.'.format(logging_component)
no_pods_msg(component) ==
    <<"No pods were found for the \"", component, "\" logging component.">>

\* "get pods -l component={} -o json".format(logging_component)
get_pods_cmd(component) == <<"get pods -l component=", component, " -o json">>

IsPrefix(a, b) == Len(a) <= Len(b) /\ SubSeq(b, 1, Len(a)) = a

\* the missing-binary message for every error that starts with the ENOENT text
exec_oc_PrefixMatch(mr, namespace, cmd, extra, tv) ==
    LET cb == get_var(tv, "openshift.common.config_base", Undefined)
    IN  IF cb.exc # NoExc THEN cb
        ELSE LET args == [namespace |-> namespace,
                          config_file |-> path_join(cb.ret, <<"master", "admin.kubeconfig">>),
                          cmd |-> cmd,
                          extra_args |-> IF extra.def THEN extra.v ELSE <<>>]
             IN  IF mr.failed.def /\ mr.failed.v
                 THEN Raises(Exception("OpenShiftCheckException",
                                       IF IsPrefix(ENOENT, mr.result) THEN MissingOcMsg
                                       ELSE unexpected_error_msg(args.cmd, mr.result)),
                             <<args>>)
                 ELSE Returns(Text(mr.result), <<args>>)

\* mr is what execute_module("ocutil", args, None, task_vars) answers
exec_oc(mr, namespace, cmd, extra, tv) ==
    LET cb == get_var(tv, "openshift.common.config_base", Undefined)
    IN  IF cb.exc # NoExc THEN cb
        ELSE LET args == [namespace |-> namespace,
                          config_file |-> path_join(cb.ret, <<"master", "admin.kubeconfig">>),
                          cmd |-> cmd,
                          extra_args |-> IF extra.def THEN extra.v ELSE <<>>]
             IN  IF mr.failed.def /\ mr.failed.v
                 THEN Raises(Exception("OpenShiftCheckException",
                                       IF mr.result = ENOENT THEN MissingOcMsg
                                       ELSE unexpected_error_msg(args.cmd, mr.result)),
                             <<args>>)
                 ELSE Returns(Text(mr.result), <<args>>)

\* pods.get('items') of a dict
dict_get(d, key) == IF key \in DOMAIN d.m THEN d.m[key] ELSE None

\* The body of the try block: json.loads raises ValueError, the code raises
\* ValueError for a falsy document or falsy items, and .get on a truthy value
\* that is no dict raises AttributeError.
load_pods(pod_output) ==
    LET loaded == json_loads(pod_output)
    IN  IF loaded.exc # NoExc THEN loaded
        ELSE IF ~Truthy(loaded.ret) THEN Raises(Exception("ValueError", <<>>), <<>>)
        ELSE IF loaded.ret.t # "dict"
             THEN Raises(Exception("AttributeError", <<"object has no attribute 'get'">>), <<>>)
        ELSE IF ~Truthy(dict_get(loaded.ret, "items"))
             THEN Raises(Exception("ValueError", <<>>), <<>>)
        ELSE loaded

\* a failure of exec_oc is reported as "no pods" too
get_pods_for_component_SwallowAll(mr, namespace, component, tv) ==
    LET out == exec_oc(mr, namespace, get_pods_cmd(component), Def(<<>>), tv)
        loaded == load_pods(out.ret.x)
    IN  IF out.exc # NoExc \/ loaded.exc.type = "ValueError"
        THEN Returns(Tuple(None, Text(no_pods_msg(component))), out.calls)
        ELSE IF loaded.exc # NoExc THEN Raises(loaded.exc, out.calls)
        ELSE Returns(Tuple(dict_get(loaded.ret, "items"), None), out.calls)

get_pods_for_component(mr, namespace, component, tv) ==
    LET out == exec_oc(mr, namespace, get_pods_cmd(component), Def(<<>>), tv)
        loaded == load_pods(out.ret.x)
    IN  IF out.exc # NoExc THEN out
        ELSE IF loaded.exc.type = "ValueError"
             THEN Returns(Tuple(None, Text(no_pods_msg(component))), out.calls)
        ELSE IF loaded.exc # NoExc THEN Raises(loaded.exc, out.calls)
        ELSE Returns(Tuple(dict_get(loaded.ret, "items"), None), out.calls)

----------------------------------------------------------------------------
(* Inputs *)

Hosts == {"master1.example.com", "master2.example.com"}

\* ansible_ssh_host: unset, set but empty, or an address
HostVars == {Undefined, Def(Str(""))} \cup {Def(Str(h)) : h \in Hosts}

\* groups.masters: unset, or a list of addresses (possibly empty)
MastersVars ==
    {Undefined} \cup
    {Def(List(l)) : l \in SeqsUpTo({Str(h) : h \in Hosts}, MaxMasters)}

DeployVars == {Undefined, Def(Bool(FALSE)), Def(Bool(TRUE))}

ConfigBase == <<"/etc/origin">>
ConfigBaseVars == {Undefined, Def(ConfigBase)}

TaskVars(H, M, D, C) ==
    { [k \in {"ansible_ssh_host", "groups.masters",
              "openshift_hosted_logging_deploy", "openshift.common.config_base"} |->
          CASE k = "ansible_ssh_host" -> h
            [] k = "groups.masters" -> m
            [] k = "openshift_hosted_logging_deploy" -> d
            [] OTHER -> c]
      : h \in H, m \in M, d \in D, c \in C }

NoModuleResult == [failed |-> Undefined, result |-> <<>>]

ContainerStatus == [ready : BOOLEAN]

Condition == {[type |-> "Ready", status |-> "True"],
              [type |-> "Ready", status |-> "False"],
              [type |-> "PodScheduled", status |-> "True"]}

Pod(cs, cond) == [status |-> Def([containerStatuses |-> cs, conditions |-> cond])]

PodWithoutStatus == [status |-> Undefined]

PodSet ==
    {PodWithoutStatus} \cup
    { Pod(cs, cond) :
        cs \in {Undefined} \cup {Def(l) : l \in SeqsUpTo(ContainerStatus, MaxContainers)},
        cond \in {Undefined} \cup {Def(l) : l \in SeqsUpTo(Condition, MaxConditions)} }

RunningPod == Pod(Def(<<[ready |-> TRUE]>>), Def(<<[type |-> "Ready", status |-> "True"]>>))
UnreadyContainerPod == Pod(Def(<<[ready |-> FALSE]>>), Def(<<[type |-> "Ready", status |-> "True"]>>))
UnreadyConditionPod == Pod(Def(<<[ready |-> TRUE]>>), Def(<<[type |-> "Ready", status |-> "False"]>>))

\* Every list of one pod, and the longer lists over four kinds of pod
PodLists ==
    {<<p>> : p \in PodSet} \cup
    SeqsUpTo({RunningPod, UnreadyContainerPod, UnreadyConditionPod, PodWithoutStatus}, MaxPods)

Components == {"es", "kibana"}

Commands == {<<"get pods">>, <<"get dc ", "logging-kibana">>}

ExtraArgs == {Undefined, Def(<<>>), Def(<<"-o", "json">>)}

\* Error texts of a failed `oc`
ErrorTexts ==
    {ENOENT,
     ENOENT \o <<": 'oc'">>,
     <<"prefix ">> \o ENOENT,
     <<"permission denied">>,
     <<>>}

JsonAlphabet == {"{", "}", "[", "]", ":", "1", "\"items\"", "No resources found."}

\* Longer documents: objects with and without items, falsy and truthy
\* documents that are no objects, text after the document
ExampleTexts ==
    {<<"{", "\"items\"", ":", "[", "]", "}">>,
     <<"{", "\"items\"", ":", "[", "{", "}", "]", "}">>,
     <<"{", "\"items\"", ":", "[", "{", "\"status\"", ":", "{", "}", "}", ",", "1", "]", "}">>,
     <<"{", "\"items\"", ":", "1", "}">>,
     <<"{", "\"items\"", ":", "0", "}">>,
     <<"{", "\"items\"", ":", "null", "}">>,
     <<"{", "\"kind\"", ":", "1", "}">>,
     <<"{", "\"kind\"", ":", "1", ",", "\"items\"", ":", "[", "1", "]", "}">>,
     <<"{", "\"items\"", ":", "[", "1", "]", ",", "\"items\"", ":", "[", "]", "}">>,
     <<"{", "\"items\"", ":", "[", "1", "]", ",", "}">>,
     <<"{", "\"items\"", ":", "[", "1", "]", "}", "}">>,
     <<"[", "1", ",", "1", "]">>,
     <<"[", "[", "]", "]">>,
     <<"0">>, <<"null">>, <<"false">>, <<"true">>, <<"\"\"">>, <<"\"kind\"">>}

OutputTexts == SeqsUpTo(JsonAlphabet, MaxTokens) \cup ExampleTexts

FailedFlags == {Undefined, Def(FALSE), Def(TRUE)}

ModuleResults(texts) == [failed : FailedFlags, result : texts]

NoTaskVars == TaskVars({Undefined}, {Undefined}, {Undefined}, {Undefined})

----------------------------------------------------------------------------
(* The calls *)

\* The arguments a call does not take keep their idle values
IdleExcept(given) ==
    /\ IF "task_vars" \in given THEN TRUE ELSE task_vars \in NoTaskVars
    /\ IF "base_is_active" \in given THEN TRUE ELSE base_is_active = Bool(TRUE)
    /\ IF "pods" \in given THEN TRUE ELSE pods = <<>>
    /\ IF "module_result" \in given THEN TRUE ELSE module_result = NoModuleResult
    /\ IF "logging_component" \in given THEN TRUE ELSE logging_component = ""
    /\ IF "cmd_str" \in given THEN TRUE ELSE cmd_str = <<>>
    /\ IF "extra_args" \in given THEN TRUE ELSE extra_args = Undefined
    /\ pc = "call"
    /\ ret = NoReturn
    /\ exc = NoExc
    /\ module_calls = <<>>

Init ==
    \/ /\ op = "is_first_master"
       /\ task_vars \in TaskVars(HostVars, MastersVars, {Undefined}, {Undefined})
       /\ IdleExcept({"task_vars"})
    \/ /\ op = "is_active"
       /\ task_vars \in TaskVars(HostVars, MastersVars, DeployVars, {Undefined})
       /\ base_is_active \in {Bool(FALSE), Bool(TRUE)}
       /\ IdleExcept({"task_vars", "base_is_active"})
    \/ /\ op = "not_running_pods"
       /\ pods \in PodLists
       /\ IdleExcept({"pods"})
    \/ /\ op = "exec_oc"
       /\ task_vars \in TaskVars({Undefined}, {Undefined}, {Undefined}, ConfigBaseVars)
       /\ module_result \in ModuleResults(ErrorTexts \cup ExampleTexts)
       /\ cmd_str \in Commands
       /\ extra_args \in ExtraArgs
       /\ IdleExcept({"task_vars", "module_result", "cmd_str", "extra_args"})
    \/ /\ op = "get_pods_for_component"
       /\ task_vars \in TaskVars({Undefined}, {Undefined}, {Undefined}, ConfigBaseVars)
       /\ module_result \in ModuleResults(ErrorTexts \cup OutputTexts)
       /\ logging_component \in Components
       /\ IdleExcept({"task_vars", "module_result", "logging_component"})

Finish(out) ==
    /\ pc' = "done"
    /\ ret' = out.ret
    /\ exc' = out.exc
    /\ module_calls' = out.calls
    /\ UNCHANGED <<op, task_vars, base_is_active, pods, module_result,
                   logging_component, cmd_str, extra_args>>

Run_is_first_master ==
    /\ op = "is_first_master" /\ pc = "call"
    /\ Finish(is_first_master(task_vars))

Run_is_active ==
    /\ op = "is_active" /\ pc = "call"
    /\ Finish(is_active(base_is_active, task_vars))

Run_not_running_pods ==
    /\ op = "not_running_pods" /\ pc = "call"
    /\ Finish(not_running_pods(pods))

Run_exec_oc ==
    /\ op = "exec_oc" /\ pc = "call"
    /\ Finish(exec_oc(module_result, logging_namespace, cmd_str, extra_args, task_vars))

Run_get_pods_for_component ==
    /\ op = "get_pods_for_component" /\ pc = "call"
    /\ Finish(get_pods_for_component(module_result, logging_namespace,
                                     logging_component, task_vars))

Next ==
    \/ Run_is_first_master
    \/ Run_is_active
    \/ Run_not_running_pods
    \/ Run_exec_oc
    \/ Run_get_pods_for_component

Spec == Init /\ [][Next]_vars

----------------------------------------------------------------------------
(* Properties *)

Done(o) == op = o /\ pc = "done"

InList(x, l) == \E i \in DOMAIN l : l[i] = x

\* sub occurs in s as a contiguous run of tokens
Contains(s, sub) ==
    \E i \in 0..(Len(s) - Len(sub)) : SubSeq(s, i + 1, i + Len(sub)) = sub

ReadyTrue == [type |-> "Ready", status |-> "True"]

\* The entries of status.containerStatuses and of status.conditions, none when
\* the key (or status itself) is absent
EntriesOfContainerStatuses(pod) ==
    IF pod.status.def
    THEN (IF pod.status.v.containerStatuses.def THEN pod.status.v.containerStatuses.v ELSE <<>>)
    ELSE <<>>

EntriesOfConditions(pod) ==
    IF pod.status.def
    THEN (IF pod.status.v.conditions.def THEN pod.status.v.conditions.v ELSE <<>>)
    ELSE <<>>

\* C1: not_running_pods returns a pod of its argument if and only if the pod
\* has no container statuses (status.containerStatuses absent or empty), or
\* some container status has ready = false, or no condition has both
\* type = "Ready" and status = "True".
C1_NotRunningIff ==
    Done("not_running_pods") =>
        /\ exc = NoExc
        /\ ret.t = "list"
        /\ \A i \in DOMAIN pods :
              InList(pods[i], ret.l) <=>
                  \/ EntriesOfContainerStatuses(pods[i]) = <<>>
                  \/ \E c \in DOMAIN EntriesOfContainerStatuses(pods[i]) :
                        ~EntriesOfContainerStatuses(pods[i])[c].ready
                  \/ ~InList(ReadyTrue, EntriesOfConditions(pods[i]))

\* A pod that has a Ready/True condition but lacks containerStatuses entirely
\* was returned.
C1_Witness ==
    /\ Done("not_running_pods")
    /\ \E i \in DOMAIN pods :
          /\ pods[i].status.def
          /\ ~pods[i].status.v.containerStatuses.def
          /\ InList(ReadyTrue, EntriesOfConditions(pods[i]))
          /\ InList(pods[i], ret.l)

AllContainersReady(pod) ==
    \A c \in DOMAIN EntriesOfContainerStatuses(pod) : EntriesOfContainerStatuses(pod)[c].ready

\* C5 as stated: a pod in which every entry of status.containerStatuses has
\* ready = true and some condition is Ready/True is not returned.
C5_AllReadyExcluded ==
    Done("not_running_pods") =>
        \A i \in DOMAIN pods :
            AllContainersReady(pods[i]) /\ InList(ReadyTrue, EntriesOfConditions(pods[i]))
                => ~InList(pods[i], ret.l)

\* C5 (amended): a pod that has at least one entry in status.containerStatuses,
\* in which every entry has ready = true and some condition is Ready/True, is
\* not returned by not_running_pods.
C5_SomeAndAllReadyExcluded ==
    Done("not_running_pods") =>
        \A i \in DOMAIN pods :
            /\ EntriesOfContainerStatuses(pods[i]) # <<>>
            /\ AllContainersReady(pods[i])
            /\ InList(ReadyTrue, EntriesOfConditions(pods[i]))
            => ~InList(pods[i], ret.l)

\* A pod with two ready containers and a Ready/True condition after another
\* condition was left out of the result.
C5_Witness ==
    /\ Done("not_running_pods")
    /\ \E i \in DOMAIN pods :
          /\ Len(EntriesOfContainerStatuses(pods[i])) = 2
          /\ AllContainersReady(pods[i])
          /\ Len(EntriesOfConditions(pods[i])) = 2
          /\ EntriesOfConditions(pods[i])[2] = ReadyTrue
          /\ EntriesOfConditions(pods[i])[1] # ReadyTrue
          /\ ~InList(pods[i], ret.l)

ExecutorCalled == module_calls # <<>>
ExecutorFailed == module_result.failed.def /\ module_result.failed.v

\* C3: when the executor result has failed = true, exec_oc raises
\* OpenShiftCheckException and returns nothing; for the result text
\* "[Errno 2] No such file or directory" the message is the one about the
\* missing oc command and has no part of the generic text, for every other
\* result text the message contains the command string and the result text.
C3_ExecOcRaises ==
    Done("exec_oc") /\ ExecutorCalled /\ ExecutorFailed =>
        /\ exc.type = "OpenShiftCheckException"
        /\ ret = NoReturn
        /\ IF module_result.result = ENOENT
           THEN /\ exc.msg = MissingOcMsg
                /\ ~Contains(exc.msg, <<UnexpectedErrorText>>)
           ELSE /\ Contains(exc.msg, cmd_str)
                /\ Contains(exc.msg, module_result.result)
                /\ Contains(exc.msg, <<UnexpectedErrorText>>)

\* exec_oc raised for an error text that starts with, but is not, the ENOENT text
C3_Witness ==
    /\ Done("exec_oc") /\ ExecutorCalled /\ ExecutorFailed
    /\ module_result.result = ENOENT \o <<": 'oc'">>
    /\ exc.type = "OpenShiftCheckException"
    /\ Contains(exc.msg, cmd_str)

\* C4: when the executor reports failure during get_pods_for_component, the
\* exception exec_oc raises for that result is what get_pods_for_component
\* raises: an OpenShiftCheckException, and nothing is returned.
C4_FailurePropagates ==
    Done("get_pods_for_component") /\ ExecutorCalled /\ ExecutorFailed =>
        /\ ret = NoReturn
        /\ exc.type = "OpenShiftCheckException"
        /\ exc = exec_oc(module_result, logging_namespace,
                         get_pods_cmd(logging_component), Def(<<>>), task_vars).exc

\* The executor failed with an output that lists a pod, and the call raised
C4_Witness ==
    /\ Done("get_pods_for_component") /\ ExecutorCalled /\ ExecutorFailed
    /\ module_result.result = <<"{", "\"items\"", ":", "[", "{", "}", "]", "}">>
    /\ exc.type = "OpenShiftCheckException"
    /\ ret = NoReturn

\* The output is a JSON object whose "items" is not empty
HasItems(text) ==
    /\ json_loads(text).exc = NoExc
    /\ json_loads(text).ret.t = "dict"
    /\ Truthy(dict_get(json_loads(text).ret, "items"))

ItemsOf(text) == dict_get(json_loads(text).ret, "items")

\* C2 as stated: when the executor reports success, get_pods_for_component
\* returns a pair with exactly one element populated: (items, None) for an
\* object with non-empty items, else (None, the "No pods were found" message
\* with the component's name).
C2_ExactlyOnePopulated ==
    Done("get_pods_for_component") /\ ExecutorCalled /\ ~ExecutorFailed =>
        /\ exc = NoExc
        /\ ret.t = "tuple"
        /\ (ret.p[1] = None) # (ret.p[2] = None)
        /\ IF HasItems(module_result.result)
           THEN ret = Tuple(ItemsOf(module_result.result), None)
           ELSE ret = Tuple(None, Text(no_pods_msg(logging_component)))

\* C8 as stated: every output of a non-failed executor call that is no object
\* with non-empty items (no JSON, JSON that is no object, no items, empty
\* items) makes get_pods_for_component return (None, reason) without raising.
C8_OnlyExecutorFailuresRaise ==
    /\ Done("get_pods_for_component") /\ ExecutorCalled /\ ~ExecutorFailed
    /\ ~HasItems(module_result.result)
    => /\ exc = NoExc
       /\ ret = Tuple(None, Text(no_pods_msg(logging_component)))

HostVar == task_vars["ansible_ssh_host"]
MastersVar == task_vars["groups.masters"]
DeployVar == task_vars["openshift_hosted_logging_deploy"]

\* The address and the list after their fallbacks
ResolvedHost == IF HostVar.def /\ HostVar.v.s # "" THEN HostVar.v ELSE List(<<None>>)
ResolvedMasters == IF MastersVar.def /\ MastersVar.v.l # <<>> THEN MastersVar.v.l ELSE <<None>>

HostIsFirstMaster ==
    /\ HostVar.def
    /\ ResolvedMasters # <<>>
    /\ ResolvedMasters[1] = ResolvedHost

\* C7: is_first_master returns true if and only if the resolved masters list is
\* not empty and its first element equals the host's resolved address; for
\* every other resolved address and list it returns false.
C7_FirstMasterIffHead ==
    Done("is_first_master") =>
        /\ (ret = Bool(TRUE)) <=> HostIsFirstMaster
        /\ HostVar.def /\ ~HostIsFirstMaster => ret = Bool(FALSE) /\ exc = NoExc

\* The host is the second of two different masters and the answer was false
C7_Witness ==
    /\ Done("is_first_master")
    /\ HostVar.def /\ MastersVar.def
    /\ Len(MastersVar.v.l) = 2
    /\ MastersVar.v.l[2] = HostVar.v
    /\ MastersVar.v.l[1] # HostVar.v
    /\ ret = Bool(FALSE)

HostFallsBack == HostVar.def /\ HostVar.v.s = ""
MastersFallBack == ~MastersVar.def \/ MastersVar.v.l = <<>>

\* C9 as stated: when the host address and the masters list both fall back to
\* their null placeholders, is_first_master returns true.
C9_PlaceholdersEqual ==
    Done("is_first_master") /\ HostFallsBack /\ MastersFallBack => ret = Bool(TRUE)

\* C9 (amended): when the host address has no value (unset or empty) and the
\* masters list is unset or empty, is_first_master never returns true: with the
\* address set but empty both fall back, the first master None differs from the
\* host placeholder [None], and it returns false.
C9_PlaceholdersDiffer ==
    Done("is_first_master") /\ (~HostVar.def \/ HostFallsBack) /\ MastersFallBack =>
        /\ ret # Bool(TRUE)
        /\ HostFallsBack => ret = Bool(FALSE) /\ exc = NoExc

\* An empty address and no masters group: the answer was false
C9_Witness ==
    /\ Done("is_first_master")
    /\ HostFallsBack
    /\ ~MastersVar.def
    /\ ret = Bool(FALSE)

DeployFlagOn == DeployVar.def /\ DeployVar.v = Bool(TRUE)

\* C6 as stated: is_active returns false whenever the deploy flag is unset or
\* false; it returns true only when the flag, the base predicate and
\* is_first_master are all true; it calls the executor never.
C6_InactiveWithoutFlag ==
    Done("is_active") =>
        /\ ~DeployFlagOn => ret = Bool(FALSE)
        /\ ret = Bool(TRUE) =>
              DeployFlagOn /\ base_is_active = Bool(TRUE) /\ HostIsFirstMaster
        /\ module_calls = <<>>

\* C10 as stated: whatever of ansible_ssh_host, groups.masters and the deploy
\* flag is missing from task_vars, is_first_master and is_active return a
\* boolean and raise nothing.
C10_MissingConfigFallsBack ==
    Done("is_first_master") \/ Done("is_active") =>
        /\ exc = NoExc
        /\ ret.t = "bool"

====
